---- MODULE Spec2Model ----
(***************************************************************************)
(* Model of the energy-hub model construction engine:                      *)
(*   src/src/energyhub.py                                (energyhub)       *)
(*   src/src/model_construction/construct_technology.py  (add_technologies)*)
(*                                                                         *)
(* Two specifications are given.                                           *)
(*   SpecTec : init_technology_block applied to one technology whose data  *)
(*             is drawn from TecData (the builder as a function of data).  *)
(*   Spec    : one Python process that creates energyhub instances and     *)
(*             runs construct_model on them, sharing the module-level      *)
(*             m_config.presolve.big_m_transformation_required.            *)
(***************************************************************************)
EXTENDS Integers, Sequences, FiniteSets, TLC

\* ------------------------------------------------------------------ bounds
MaxSize == 1        \* largest size value appearing in technology data
MaxLen == 2         \* largest length of a size_min / size_max collection
MaxT == 2           \* largest number of time steps
MaxHubs == 2        \* energyhub instances created in one process
MaxTecs == 1        \* technologies listed per node in the topology

\* ------------------------------------------------------------ data domains
NodeNames == {"onshore", "offshore"}
CarrierNames == {"electricity", "heat"}
TecNames == <<"tec1", "tec2", "tec3">>
TecTypes == {"RES", "CONV1", "CONV2", "CONV3", "STOR", "OTHER"}
CapexModels == {1, 2, 3}
SizeVals == (-1)..MaxSize

\* A size bound of the technology data: a number, or a collection of numbers.
Number(v) == [is_number |-> TRUE, value |-> v, items |-> {}]
Collection(S) == [is_number |-> FALSE, value |-> 0, items |-> S]
SizeSpecs ==
    {Number(v) : v \in SizeVals}
      \cup {Collection(S) : S \in {X \in SUBSET SizeVals : Cardinality(X) <= MaxLen}}

\* tec_data['Economics'] without the CAPEX_model selector
EconomicsSet ==
    {[unit_CAPEX_annual |-> 3, OPEX_variable |-> 2, OPEX_fixed |-> 1]}

\* data.technology_data[nodename][tec]
TecData ==
    [tec_type : TecTypes, CAPEX_model : CapexModels, size_is_int : BOOLEAN,
     size_min : SizeSpecs, size_max : SizeSpecs,
     input_carrier : SUBSET CarrierNames, output_carrier : SUBSET CarrierNames,
     Economics : EconomicsSet]

\* --------------------------------------------------------- Python built-ins
Min(S) == CHOOSE x \in S : \A y \in S : x <= y
Max(S) == CHOOSE x \in S : \A y \in S : x >= y
Range(s) == {s[i] : i \in 1..Len(s)}

\* RangeSet(1, n)
RangeSet(n) == 1..n

\* ------------------------------------------- pyomo component declarations
\* Var(index, within=..., bounds=(lb, ub)); pyomo's default domain is Reals
\* and a Var declared without bounds is unbounded.
Var(index, within, lb, ub) ==
    [index |-> index, within |-> within, bounded |-> TRUE, lb |-> lb, ub |-> ub]
FreeVar(index) ==
    [index |-> index, within |-> "Reals", bounded |-> FALSE, lb |-> 0, ub |-> 0]
NoVar ==
    [index |-> {}, within |-> "absent", bounded |-> FALSE, lb |-> 0, ub |-> 0]
Scalar == {<<>>}

\* ------------------------------------------------ init_technology_block
\* size_min resolution
resolve_size_min(s) == IF s.is_number THEN s.value ELSE Min(s.items)

\* size_max resolution
resolve_size_max(s) == IF s.is_number THEN s.value ELSE Max(s.items)

\* min() / max() of an empty collection raise ValueError
size_resolvable(tec_data) ==
    /\ tec_data.size_min.is_number \/ tec_data.size_min.items # {}
    /\ tec_data.size_max.is_number \/ tec_data.size_max.items # {}

\* Param(domain=NonNegativeReals, initialize=v) rejects v < 0 with ValueError
param_domain_ok(size_min, size_max) == size_min >= 0 /\ size_max >= 0

\* var_input: declared unless the archetype is RES
var_input_always(tec_data, set_t, size_min, size_max) ==
    Var(set_t \X tec_data.input_carrier, "NonNegativeReals", size_min, size_max)
var_input(tec_data, set_t, size_min, size_max) ==
    IF tec_data.tec_type # "RES"
    THEN Var(set_t \X tec_data.input_carrier, "NonNegativeReals", size_min, size_max)
    ELSE NoVar

\* var_output
var_output_unbounded(tec_data, set_t, output_max) ==
    FreeVar(set_t \X tec_data.output_carrier)
var_output(tec_data, set_t, output_max) ==
    Var(set_t \X tec_data.output_carrier, "NonNegativeReals", 0, output_max)

\* var_size
var_size(tec_data, size_min, size_max) ==
    IF tec_data.size_is_int
    THEN Var(Scalar, "NonNegativeIntegers", size_min, size_max)
    ELSE Var(Scalar, "NonNegativeReals", size_min, size_max)

\* const_CAPEX: which constraint the cost-model selector produces
const_CAPEX(capex_model) ==
    IF capex_model = 1 THEN "linear"
    ELSE IF capex_model = 2 THEN "piecewise"
    ELSE "none"

\* const_OPEX_variable[t]:
\*   sum(var_output[t, car] for car in set_output_carriers) * para_OPEX_variable
\*     == var_OPEX_variable[t]
init_OPEX_variable_main_carrier(tec_data, t) ==
    [summed |-> IF tec_data.output_carrier = {} THEN {}
                ELSE {<<t, CHOOSE c \in tec_data.output_carrier : TRUE>>},
     coef |-> tec_data.Economics.OPEX_variable,
     equals |-> <<t>>]
init_OPEX_variable(tec_data, t) ==
    [summed |-> {<<t, car>> : car \in tec_data.output_carrier},
     coef |-> tec_data.Economics.OPEX_variable,
     equals |-> <<t>>]

\* dispatch on tec_type to the archetype constraint functions
archetype_constraints(tec_type) ==
    IF tec_type = "RES" THEN "constraints_tec_RES"
    ELSE IF tec_type = "CONV1" THEN "constraints_tec_CONV1"
    ELSE IF tec_type = "CONV2" THEN "constraints_tec_CONV2"
    ELSE IF tec_type = "CONV3" THEN "constraints_tec_CONV3"
    ELSE IF tec_type = "STOR" THEN "constraints_tec_STOR"
    ELSE "none"

\* value of m_config.presolve.big_m_transformation_required after the
\* cost-model branch, given its value before
big_m_after_capex_resetting(capex_model, flag) ==
    IF capex_model = 2 THEN 1 ELSE 0
big_m_after_capex(capex_model, flag) ==
    IF capex_model = 2 THEN 1 ELSE flag

Failed(err, flag, reached) ==
    [built |-> FALSE, error |-> err, flag |-> flag, reached_capex |-> reached]

\* The rule of Block(b_node.set_tecsAtNode, rule=init_technology_block) for one
\* technology.  flag is the value of big_m_transformation_required on entry,
\* bps tells whether the names bp_x / bp_y are bound.  The result carries the
\* block, the flag on exit and whether the cost-model branch was reached.
init_technology_block(tec_data, set_t, flag, bps) ==
    IF ~size_resolvable(tec_data) THEN Failed("ValueError", flag, FALSE)
    ELSE
    LET size_min == resolve_size_min(tec_data.size_min)
        size_max == resolve_size_max(tec_data.size_max)
        capex_model == tec_data.CAPEX_model
        flag_out == big_m_after_capex(capex_model, flag)
    IN  IF ~param_domain_ok(size_min, size_max)
        THEN Failed("ValueError", flag, FALSE)
        ELSE IF capex_model = 2 /\ ~bps
        THEN Failed("NameError", flag_out, TRUE)
        ELSE
        [built |-> TRUE, error |-> "", flag |-> flag_out, reached_capex |-> TRUE,
         tec_type |-> tec_data.tec_type,
         capex_model |-> capex_model,
         unit_size |-> IF tec_data.size_is_int THEN "dimensionless" ELSE "MW",
         para_size_min |-> size_min,
         para_size_max |-> size_max,
         para_output_max |-> size_max,
         para_unit_CAPEX |-> tec_data.Economics.unit_CAPEX_annual,
         para_OPEX_variable |-> tec_data.Economics.OPEX_variable,
         para_OPEX_fixed |-> tec_data.Economics.OPEX_fixed,
         set_input_carriers |-> tec_data.input_carrier,
         set_output_carriers |-> tec_data.output_carrier,
         var_input |-> var_input(tec_data, set_t, size_min, size_max),
         var_output |-> var_output(tec_data, set_t, size_max),
         var_size |-> var_size(tec_data, size_min, size_max),
         var_CAPEX |-> FreeVar(Scalar),
         var_OPEX_variable |-> FreeVar({<<t>> : t \in set_t}),
         var_OPEX_fixed |-> FreeVar(Scalar),
         const_CAPEX |-> const_CAPEX(capex_model),
         const_OPEX_fixed |-> "CAPEX*para_OPEX_fixed",
         const_OPEX_variable |-> [t \in set_t |-> init_OPEX_variable(tec_data, t)],
         archetype |-> archetype_constraints(tec_data.tec_type)]

NoBlock == [built |-> FALSE, error |-> "", flag |-> 0, reached_capex |-> FALSE]


\* ------------------------------------------------------------------ state
VARIABLES
    big_m_transformation_required,  \* m_config.presolve.big_m_transformation_required
    bp,             \* whether bp_x / bp_y are bound in construct_technology
    pc,             \* position of the process
    data,           \* the data handle passed to energyhub(data)
    model,          \* self.model of the current energyhub
    stage,          \* next statement of construct_model
    pos,            \* next technology of add_nodes
    error,          \* exception raised by the last call, "" if none
    offending,      \* node named in the message printed by tec_node
    hubs,           \* energyhub instances created so far
    tec_data,       \* data of the technology last handed to init_technology_block
    b_tec,          \* the block init_technology_block made of it
    built_capex     \* history: CAPEX_model of every technology whose build
                    \* reached the cost-model branch, over the whole process

vars == <<big_m_transformation_required, bp, pc, data, model, stage, pos, error,
          offending, hubs, tec_data, b_tec, built_capex>>

\* value of big_m_transformation_required when config_model is imported
presolve_default == 0

NoData == [nodes |-> <<>>, carriers |-> {}, timesteps |-> 0, technologies |-> <<>>]
NoModel ==
    [set_nodes |-> <<>>, set_carriers |-> {}, set_t |-> {},
     set_technologies |-> <<>>,
     network_blocks |-> FALSE, tech_blocks |-> <<>>, node_blocks |-> FALSE,
     const_energybalance |-> FALSE, objective |-> FALSE, objective_terms |-> {},
     log |-> <<>>]
NoTecData == CHOOSE d \in TecData : TRUE

\* ------------------------------------------------ specification SpecTec
\* init_technology_block on one technology; the surrounding model supplies
\* set_t and set_carriers.
InitTec ==
    /\ big_m_transformation_required = presolve_default
    /\ bp \in BOOLEAN
    /\ pc = "tec"
    /\ data = NoData
    /\ \E T \in 1..MaxT, cars \in {{"electricity"}, CarrierNames} :
         model = [NoModel EXCEPT !.set_t = RangeSet(T), !.set_carriers = cars]
    /\ stage = 1
    /\ pos = 1
    /\ error = ""
    /\ offending = ""
    /\ hubs = 0
    /\ tec_data \in TecData
    /\ b_tec = NoBlock
    /\ built_capex = {}

BuildTechnology ==
    /\ pc = "tec"
    /\ LET r == init_technology_block(tec_data, model.set_t,
                                      big_m_transformation_required, bp)
       IN  /\ b_tec' = r
           /\ big_m_transformation_required' = r.flag
           /\ error' = r.error
           /\ built_capex' = IF r.reached_capex
                             THEN built_capex \cup {tec_data.CAPEX_model}
                             ELSE built_capex
    /\ pc' = "tec_done"
    /\ UNCHANGED <<bp, data, model, stage, pos, offending, hubs, tec_data>>

NextTec == BuildTechnology

SpecTec == InitTec /\ [][NextTec]_vars


\* --------------------------------------------------- energyhub.__init__
\* topologies handed to energyhub(data)
NodeLists ==
    {<<>>} \cup {<<n>> : n \in NodeNames}
           \cup {<<n, m>> : <<n, m>> \in {q \in NodeNames \X NodeNames : q[1] # q[2]}}
TecLists == {SubSeq(TecNames, 1, k) : k \in 0..MaxTecs}
TechnologyMaps == UNION {[D -> TecLists] : D \in SUBSET NodeNames}
Topologies ==
    [nodes : NodeLists, carriers : {CarrierNames}, timesteps : {MaxT},
     technologies : TechnologyMaps]

\* tec_node(model, node): the initialiser of set_technologies for one node
tec_node(sets, set_nodes, node) ==
    IF node \in Range(set_nodes)
    THEN IF node \in DOMAIN sets.technologies
         THEN [raised |-> FALSE, value |-> sets.technologies[node]]
         ELSE [raised |-> TRUE, value |-> <<>>]      \* KeyError, printed, re-raised
    ELSE [raised |-> FALSE, value |-> <<>>]          \* returns None

\* nodes of set_nodes, in order, whose initialiser raises
RaisingNodes(sets) ==
    SelectSeq(sets.nodes, LAMBDA n : tec_node(sets, sets.nodes, n).raised)

\* energyhub.__init__(data): the sets of the new model, or the exception
energyhub_init(sets) ==
    IF sets.nodes = <<>>
    THEN [ok |-> FALSE, error |-> "IndexError", node |-> "", model |-> NoModel]
    ELSE IF RaisingNodes(sets) # <<>>
    THEN [ok |-> FALSE, error |-> "KeyError", node |-> Head(RaisingNodes(sets)),
          model |-> NoModel]
    ELSE [ok |-> TRUE, error |-> "", node |-> "",
          model |-> [NoModel EXCEPT
                       !.set_nodes = sets.nodes,
                       !.set_carriers = sets.carriers,
                       !.set_t = RangeSet(sets.timesteps),
                       !.set_technologies =
                           [n \in Range(sets.nodes) |->
                               tec_node(sets, sets.nodes, n).value]]]

\* a call of energyhub(data) is made between calls of construct_model
AtCallBoundary == pc \in {"idle", "constructed", "done", "failed"}

NewHub ==
    /\ AtCallBoundary
    /\ hubs < MaxHubs
    /\ \E sets \in Topologies :
         LET r == energyhub_init(sets)
         IN  /\ data' = sets
             /\ model' = r.model
             /\ error' = r.error
             /\ offending' = r.node
             /\ pc' = IF r.ok THEN "constructed" ELSE "failed"
    /\ hubs' = hubs + 1
    /\ stage' = 1
    /\ pos' = 1
    /\ UNCHANGED <<big_m_transformation_required, bp, tec_data, b_tec, built_capex>>

\* ------------------------------------------------ energyhub.construct_model
\* the statements of construct_model in program order
construct_model_balance_first ==
    <<"add_networks", "add_energybalance", "add_nodes", "objective">>
construct_model ==
    <<"add_networks", "add_nodes", "add_energybalance", "objective">>

Running(s) ==
    /\ pc = "construct_model"
    /\ stage <= Len(construct_model)
    /\ construct_model[stage] = s

\* the call is entered: objective_function = 'cost'
ConstructModel ==
    /\ pc = "constructed"
    /\ pc' = "construct_model"
    /\ stage' = 1
    /\ pos' = 1
    /\ UNCHANGED <<big_m_transformation_required, bp, data, model, error,
                   offending, hubs, tec_data, b_tec, built_capex>>

\* self.model = add_networks(self.model, self.data)
AddNetworks ==
    /\ Running("add_networks")
    /\ model' = [model EXCEPT !.network_blocks = TRUE,
                              !.log = Append(@, "add_networks")]
    /\ stage' = stage + 1
    /\ UNCHANGED <<big_m_transformation_required, bp, pc, data, pos, error,
                   offending, hubs, tec_data, b_tec, built_capex>>

\* technologies in the order add_nodes builds them: node by node, and for each
\* node the members of set_technologies[node]
RECURSIVE TecsFrom(_, _)
TecsFrom(m, i) ==
    IF i > Len(m.set_nodes) THEN <<>>
    ELSE LET n == m.set_nodes[i]
         IN  [k \in 1..Len(m.set_technologies[n]) |-> <<n, m.set_technologies[n][k]>>]
               \o TecsFrom(m, i + 1)
TecsOfModel(m) == TecsFrom(m, 1)

\* technology data a hub of the process may hold
TecDataHub ==
    {[tec_type |-> "CONV1", CAPEX_model |-> c, size_is_int |-> FALSE,
      size_min |-> Number(lo), size_max |-> Number(MaxSize),
      input_carrier |-> {"electricity"}, output_carrier |-> {"heat"},
      Economics |-> e] : c \in CapexModels, lo \in {-1, 0}, e \in EconomicsSet}

\* add_nodes, one technology: the Block rule init_technology_block
AddTechnology ==
    /\ Running("add_nodes")
    /\ pos <= Len(TecsOfModel(model))
    /\ \E d \in TecDataHub :
         LET r == init_technology_block(d, model.set_t,
                                        big_m_transformation_required, bp)
         IN  /\ tec_data' = d
             /\ b_tec' = r
             /\ big_m_transformation_required' = r.flag
             /\ built_capex' = IF r.reached_capex
                               THEN built_capex \cup {d.CAPEX_model}
                               ELSE built_capex
             /\ error' = r.error
             /\ IF r.built
                THEN /\ model' = [model EXCEPT !.tech_blocks =
                            Append(@, [node |-> TecsOfModel(model)[pos][1],
                                       tec |-> TecsOfModel(model)[pos][2],
                                       block |-> r])]
                     /\ pos' = pos + 1
                     /\ pc' = pc
                ELSE /\ model' = model
                     /\ pos' = pos
                     /\ pc' = "failed"
    /\ UNCHANGED <<bp, data, stage, offending, hubs>>

\* add_nodes returns once every node block is built
AddNodes ==
    /\ Running("add_nodes")
    /\ pos > Len(TecsOfModel(model))
    /\ model' = [model EXCEPT !.node_blocks = TRUE, !.log = Append(@, "add_nodes")]
    /\ stage' = stage + 1
    /\ UNCHANGED <<big_m_transformation_required, bp, pc, data, pos, error,
                   offending, hubs, tec_data, b_tec, built_capex>>

\* self.model = add_energybalance(self.model)
AddEnergybalance ==
    /\ Running("add_energybalance")
    /\ model' = [model EXCEPT !.const_energybalance = TRUE,
                              !.log = Append(@, "add_energybalance")]
    /\ stage' = stage + 1
    /\ UNCHANGED <<big_m_transformation_required, bp, pc, data, pos, error,
                   offending, hubs, tec_data, b_tec, built_capex>>

\* self.model.objective = Objective(rule=cost_objective, sense=minimize);
\* the last statement, construct_model returns
AttachObjective ==
    /\ Running("objective")
    /\ model' = [model EXCEPT !.objective = TRUE,
                              !.objective_terms = Range(model.set_nodes),
                              !.log = Append(@, "objective")]
    /\ stage' = stage + 1
    /\ pc' = IF stage = Len(construct_model) THEN "done" ELSE pc
    /\ UNCHANGED <<big_m_transformation_required, bp, data, pos, error,
                   offending, hubs, tec_data, b_tec, built_capex>>

Init ==
    /\ big_m_transformation_required = presolve_default
    /\ bp \in BOOLEAN
    /\ pc = "idle"
    /\ data = NoData
    /\ model = NoModel
    /\ stage = 1
    /\ pos = 1
    /\ error = ""
    /\ offending = ""
    /\ hubs = 0
    /\ tec_data = NoTecData
    /\ b_tec = NoBlock
    /\ built_capex = {}

Next ==
    \/ NewHub
    \/ ConstructModel
    \/ AddNetworks
    \/ AddTechnology
    \/ AddNodes
    \/ AddEnergybalance
    \/ AttachObjective

Spec == Init /\ [][Next]_vars


\* ============================================================ properties
Blocks == {model.tech_blocks[i].block : i \in 1..Len(model.tech_blocks)}

\* a variable declaration that forces its values to be >= 0
NonNegative(v) ==
    \/ v.within \in {"NonNegativeReals", "NonNegativeIntegers"}
    \/ v.bounded /\ v.lb >= 0
Free(v) == v.within = "Reals" /\ ~v.bounded

\* ---- C1 (as claimed). After construct_model has returned, the flag is set
\* if some technology of the hub has capex_model = 2, and it is not set if the
\* hub has technologies and all of them have capex_model = 1.
C1_FlagReflectsHub ==
    pc = "done" =>
      /\ (\E b \in Blocks : b.capex_model = 2) => big_m_transformation_required = 1
      /\ (Blocks # {} /\ \A b \in Blocks : b.capex_model = 1)
            => big_m_transformation_required = 0

\* ---- C2 (as claimed). A node named in the topology's technology mapping but
\* absent from the node list makes energyhub(data) fail, naming that node: no
\* model with technology sets exists when the two disagree.
C2_MappingNodesValidated ==
    ~(DOMAIN data.technologies \subseteq Range(data.nodes)) =>
        /\ model = NoModel
        /\ error # ""
        /\ offending \in DOMAIN data.technologies \ Range(data.nodes)

\* ---- C3 (as claimed). A number is used as-is, a collection is reduced to its
\* min (size_min) or max (size_max), para_output_max is the resolved size_max,
\* and with both bounds given as collections the resolved min is <= the
\* resolved max.
C3_SizeResolution ==
    b_tec.built =>
      /\ tec_data.size_min.is_number => b_tec.para_size_min = tec_data.size_min.value
      /\ tec_data.size_max.is_number => b_tec.para_size_max = tec_data.size_max.value
      /\ ~tec_data.size_min.is_number =>
            /\ b_tec.para_size_min \in tec_data.size_min.items
            /\ \A x \in tec_data.size_min.items : b_tec.para_size_min <= x
      /\ ~tec_data.size_max.is_number =>
            /\ b_tec.para_size_max \in tec_data.size_max.items
            /\ \A x \in tec_data.size_max.items : b_tec.para_size_max >= x
      /\ b_tec.para_output_max = b_tec.para_size_max
      /\ (~tec_data.size_min.is_number /\ ~tec_data.size_max.is_number)
            => b_tec.para_size_min <= b_tec.para_size_max

\* ---- C4. In every technology block built, var_output is indexed by exactly
\* set_t x the declared output carriers; var_input is indexed by exactly
\* set_t x the declared input carriers when the archetype is not RES, and is
\* absent for RES whatever the declared input carriers.
C4_SparseVariables ==
    b_tec.built =>
      /\ b_tec.var_output.index = model.set_t \X tec_data.output_carrier
      /\ b_tec.var_output.within # "absent"
      /\ tec_data.tec_type # "RES" =>
            /\ b_tec.var_input.within # "absent"
            /\ b_tec.var_input.index = model.set_t \X tec_data.input_carrier
      /\ tec_data.tec_type = "RES" => b_tec.var_input = NoVar
C4_Witness ==
    /\ pc = "tec_done" /\ b_tec.built
    /\ tec_data.tec_type = "RES"
    /\ tec_data.input_carrier # {} /\ tec_data.output_carrier # {}
    /\ b_tec.var_input = NoVar
    /\ Cardinality(b_tec.var_output.index) = MaxT

\* ---- C5 (as claimed). Every variable of a built block (size, input,
\* output, CAPEX, OPEX_variable, OPEX_fixed) is non-negative by domain or
\* bounds; size is bounded by [size_min, size_max], output by [0, output_max].
C5_AllNonNegative ==
    b_tec.built =>
      /\ NonNegative(b_tec.var_size)
      /\ b_tec.var_input # NoVar => NonNegative(b_tec.var_input)
      /\ NonNegative(b_tec.var_output)
      /\ NonNegative(b_tec.var_CAPEX)
      /\ NonNegative(b_tec.var_OPEX_variable)
      /\ NonNegative(b_tec.var_OPEX_fixed)
      /\ b_tec.var_size.bounded
      /\ <<b_tec.var_size.lb, b_tec.var_size.ub>>
            = <<b_tec.para_size_min, b_tec.para_size_max>>
      /\ b_tec.var_output.bounded
      /\ <<b_tec.var_output.lb, b_tec.var_output.ub>> = <<0, b_tec.para_output_max>>

\* ---- C5 (amended). size, input and output are non-negative by their
\* declared domain, size is bounded by [size_min, size_max] and output by
\* [0, output_max]; CAPEX, OPEX_variable and OPEX_fixed are declared with
\* neither domain nor bounds.
C5_Amended ==
    b_tec.built =>
      /\ NonNegative(b_tec.var_size)
      /\ b_tec.var_input # NoVar => NonNegative(b_tec.var_input)
      /\ NonNegative(b_tec.var_output)
      /\ Free(b_tec.var_CAPEX)
      /\ Free(b_tec.var_OPEX_variable)
      /\ Free(b_tec.var_OPEX_fixed)
      /\ b_tec.var_size.bounded
      /\ <<b_tec.var_size.lb, b_tec.var_size.ub>>
            = <<b_tec.para_size_min, b_tec.para_size_max>>
      /\ b_tec.var_output.bounded
      /\ <<b_tec.var_output.lb, b_tec.var_output.ub>> = <<0, b_tec.para_output_max>>
C5_Witness ==
    /\ pc = "tec_done" /\ b_tec.built
    /\ b_tec.var_input # NoVar /\ b_tec.var_input.index # {}
    /\ b_tec.var_output.index # {}
    /\ b_tec.para_size_min > 0
    /\ b_tec.var_size.within = "NonNegativeIntegers"

\* ---- C6 (as claimed). Every built block has exactly one CAPEX constraint,
\* linear or piecewise-linear, whatever cost-model selector was accepted.
C6_OneCapexConstraint ==
    b_tec.built => b_tec.const_CAPEX \in {"linear", "piecewise"}

C8_Order == <<"add_networks", "add_nodes", "add_energybalance", "objective">>

\* ---- C8. construct_model runs add_networks, add_nodes, add_energybalance
\* and the objective in this order: the energy balance exists only when the
\* network blocks and every node's technology blocks exist, and the objective
\* (the sum of the node costs over all nodes) only when the energy balance
\* exists.
C8_StageOrder ==
    /\ model.log = SubSeq(C8_Order, 1, Len(model.log))
    /\ model.const_energybalance =>
          /\ model.network_blocks
          /\ model.node_blocks
          /\ Len(model.tech_blocks) = Len(TecsOfModel(model))
    /\ model.objective =>
          /\ model.const_energybalance
          /\ model.objective_terms = Range(model.set_nodes)
    /\ pc = "done" => model.objective
C8_Witness ==
    /\ pc = "done"
    /\ model.log = C8_Order
    /\ Len(model.set_nodes) = 2
    /\ Len(model.tech_blocks) >= 2

\* ---- C9 (as claimed). A technology whose resolved size_min exceeds its
\* resolved size_max, or which names a carrier outside the model's carrier
\* set, gets an error instead of a block: every built block has
\* size_min <= size_max and carrier sets within set_carriers.
C9_InconsistentDataRejected ==
    b_tec.built =>
      /\ b_tec.para_size_min <= b_tec.para_size_max
      /\ b_tec.set_input_carriers \subseteq model.set_carriers
      /\ b_tec.set_output_carriers \subseteq model.set_carriers

\* the flag records the history of the cost-model branch
C10_FlagIsHistory ==
    big_m_transformation_required = 1 <=> 2 \in built_capex

====
